---------------------------- MODULE Spec2Model ----------------------------
(***************************************************************************)
(* Model of models/GRADE.py: the gradient-reversal operator ReverseLayerF, *)
(* the GraphConvolution layer and the GRADE model (forward and inference). *)
(*                                                                         *)
(* Tensors are sequences (vectors) and sequences of rows (matrices) of     *)
(* integers; row r of a tensor (0-based in the code) is element r + 1      *)
(* here.  Floating-point values are modelled in fixed point: a probability *)
(* is an integer in 0 .. 2*Half (units of 1/(2*Half)), a loss is an        *)
(* integer number of 1/LossUnit, and the value forward returns is kept in  *)
(* units of 1/(LossUnit*DomainWeightDen) so that the factor 0.1 of line    *)
(* 125 is exact.                                                           *)
(***************************************************************************)
EXTENDS Integers, Sequences, FiniteSets, TLC

\* ------------------------------------------------------------------ bounds
\* args.edim: the width of every graph-convolution layer's output.
EDim == 1
\* feats_s.shape[1]: the width of the static node features.
FeatDim == 2
\* The largest number of rows of a batch.
MaxBatch == 2
\* alpha ranges over 0 .. MaxAlpha.
MaxAlpha == 2
\* Probabilities are kept in units of 1/(2*Half).
Half == 50
\* Losses are kept in units of 1/LossUnit.
LossUnit == 1000

\* ------------------------------------------------------- program constants
\* self.num_gcn_layers = 2
num_gcn_layers == 2
\* "domain_loss * 0.1": the weight 0.1 as the fraction 1/DomainWeightDen.
DomainWeightDen == 10

\* ------------------------------------------------------------ tensor algebra
RECURSIVE SumTo(_, _)
SumTo(f, n) == IF n = 0 THEN 0 ELSE f[n] + SumTo(f, n - 1)

Dot(a, b) == SumTo([k \in 1..Len(a) |-> a[k] * b[k]], Len(a))

\* torch.mm / torch.spmm: the matrix product (A is n x k, B is k x m).
MatMul(A, B) ==
  [r \in 1..Len(A) |->
     [c \in 1..Len(B[1]) |->
        SumTo([k \in 1..Len(B) |-> A[r][k] * B[k][c]], Len(B))]]

\* output + self.bias: the bias vector broadcast over the rows.
AddBias(M, b) == [r \in 1..Len(M) |-> [c \in 1..Len(M[r]) |-> M[r][c] + b[c]]]

\* F.relu: negative entries become zero.
Relu(M) ==
  [r \in 1..Len(M) |-> [c \in 1..Len(M[r]) |-> IF M[r][c] < 0 THEN 0 ELSE M[r][c]]]

\* An index tensor's entry k is valid for a tensor of N rows iff -N <= k < N.
IndexOk(k, N) == (-N <= k) /\ (k < N)

\* The row (1-based here) that index k reads: a negative index counts from
\* the end.
RowOf(k, N) == IF k < 0 THEN N + k + 1 ELSE k + 1

\* x[idx]: the rows of x named by the index vector idx.
Gather(x, idx) == [j \in 1..Len(idx) |-> x[RowOf(idx[j], Len(x))]]

GatherOk(x, idx) == \A j \in 1..Len(idx) : IndexOk(idx[j], Len(x))

\* idx + n: a scalar added to an index vector.
Offset(idx, n) == [j \in 1..Len(idx) |-> idx[j] + n]

RECURSIVE CatCols(_)
\* torch.cat(list, dim=1): the matrices of the list side by side.
CatCols(Ms) ==
  IF Len(Ms) = 1 THEN Ms[1]
  ELSE LET rest == CatCols(Tail(Ms))
       IN  [r \in 1..Len(Ms[1]) |-> Ms[1][r] \o rest[r]]

\* torch.cat([A, B], dim=0): the rows of A, then the rows of B.
CatRows(A, B) == A \o B

\* nn.Sigmoid, in fixed point: 0 .. 2*Half stands for 0 .. 1, monotone,
\* 1/2 at 0, saturating.
Sigmoid(z) ==
  IF z <= -Half THEN 0 ELSE IF z >= Half THEN 2 * Half ELSE z + Half

\* nn.Linear(n, 1) followed by nn.Sigmoid, on every row of M; the result is
\* the column of scores (read as a vector, as .view(-1) does).
Score(lin, M) == [j \in 1..Len(M) |-> Sigmoid(Dot(M[j], lin.w) + lin.b)]

\* -log(p / (2*Half)) in units of 1/LossUnit, clamped at 100 as BCELoss
\* clamps its logarithms: the harmonic approximation of the logarithm.
NegLog(p) ==
  IF p = 0 THEN 100 * LossUnit
  ELSE SumTo([k \in 1..(2 * Half - p) |-> LossUnit \div (p + k)], 2 * Half - p)

\* nn.BCELoss (mean reduction) of predictions p against 0/1 targets y.
BCELoss(p, y) ==
  SumTo([j \in 1..Len(p) |->
           y[j] * NegLog(p[j]) + (1 - y[j]) * NegLog(2 * Half - p[j])], Len(p))
    \div Len(p)

\* ------------------------------------------------------- ReverseLayerF
\* ReverseLayerF.forward: stores alpha in the context and returns a view of
\* x with x's own shape.
ReverseForward(x, alpha) == [ctx |-> [alpha |-> alpha], output |-> x]

Neg(M) == [r \in 1..Len(M) |-> [c \in 1..Len(M[r]) |-> 0 - M[r][c]]]

Times(M, a) == [r \in 1..Len(M) |-> [c \in 1..Len(M[r]) |-> M[r][c] * a]]

\* ReverseLayerF.backward with the negation left out.
ReverseBackwardNoNeg(ctx, grad_output) ==
  <<[kind |-> "tensor", val |-> Times(grad_output, ctx.alpha)],
    [kind |-> "None"]>>

\* ReverseLayerF.backward: (grad_output.neg() * ctx.alpha, None).
ReverseBackward(ctx, grad_output) ==
  <<[kind |-> "tensor", val |-> Times(Neg(grad_output), ctx.alpha)],
    [kind |-> "None"]>>

\* ------------------------------------------------------- GraphConvolution
\* GraphConvolution.forward with a rectifier applied inside the layer.
GraphConvolutionRectified(layer, input, adj) ==
  Relu(AddBias(MatMul(adj, MatMul(input, layer.weight)), layer.bias.val))

\* GraphConvolution.forward: adj * (input * weight) + bias, no activation.
GraphConvolution(layer, input, adj) ==
  LET support == MatMul(input, layer.weight)
      output  == MatMul(adj, support)
  IN  IF layer.bias.kind = "tensor" THEN AddBias(output, layer.bias.val)
      ELSE output

\* ------------------------------------------------- construction arguments
\* A domain's data set: its node counts, its static features (user rows
\* first, then item rows) and its adjacency over the same node order.
Pick(table, k) == table[(k % Len(table)) + 1]

Feats(nu, ni, salt) ==
  [n \in 1..(nu + ni) |->
     [f \in 1..FeatDim |->
        Pick(<<2, 0, 0, -1, -2, -2, 3>>, n * n + n * f + salt * f + salt)]]

\* Self loops, and weighted edges between users and items only.
Adj(nu, ni, salt) ==
  [a \in 1..(nu + ni) |->
     [b \in 1..(nu + ni) |->
        IF a = b THEN 1
        ELSE IF ((a <= nu) # (b <= nu)) /\ ((a + b + salt) % 3 # 0)
             THEN 1 + ((a * b + salt) % 2)
        ELSE 0]]

DataSet(nu, ni, salt) ==
  [num_user |-> nu, num_item |-> ni,
   feats |-> Feats(nu, ni, salt), adj |-> Adj(nu, ni, salt)]

\* The toy graph of two users and two items, and a graph of five users and
\* three items.
DataSets == {DataSet(2, 2, 1), DataSet(5, 3, 2)}

\* layers = [feats_s.shape[1]] + [args.edim] * self.num_gcn_layers
LayerDims == [k \in 1..(num_gcn_layers + 1) |-> IF k = 1 THEN FeatDim ELSE EDim]

\* GraphConvolution.__init__ / reset_parameters: a weight of in x out and a
\* bias of out entries, drawn at random; seed names the draw.
NewGraphConvolution(in_features, out_features, seed) ==
  [weight |-> [r \in 1..in_features |->
                 [c \in 1..out_features |->
                    Pick(<<1, 1, -1, 1, 1, 2, 1, 1>>, seed * 3 + r * 2 + c)]],
   bias   |-> [kind |-> "tensor",
               val  |-> [c \in 1..out_features |-> Pick(<<0, 1, 0>>, seed + c)]]]

\* self.gc: one list of num_gcn_layers layers.
NewGC(seed) ==
  [k \in 1..num_gcn_layers |->
     NewGraphConvolution(LayerDims[k], LayerDims[k + 1], seed + k - 1)]

\* nn.Linear(n, 1): n weights and a bias, drawn at random.
NewLinear(n, seed) ==
  [w |-> [k \in 1..n |-> Pick(<<-2, 1, 1, -2, 2>>, seed * k + k * k)],
   b |-> (seed % 3) - 1]

Seeds == {1, 2}

\* ------------------------------------------------------------------ state
VARIABLES
  \* GRADE's fields
  num_item_d1, num_user_d1, num_item_d2, num_user_d2,
  adj_ds, adj_dt, V_d1, V_d2, gc, layers, discriminator_u, discriminator_i,
  \* the call in progress: where it is, its arguments, its locals
  pc, call, i, x_ds, x_dt,
  user_feats_ds, item_feats_ds, user_feats_dt, item_feats_dt,
  local,
  \* what the last call handed to its caller
  out,
  \* what loss.backward() left: the gradients that reached the encoder
  grads,
  \* history: every layer's output of the call (xs) and what the layer itself
  \* returned, before the rectifier (raw), the target part of the last
  \* forward call, the fields as the optimizer last left them, what the
  \* probe call returned since then, whether this call repeats the probe call
  xs_ds, xs_dt, raw_ds, raw_dt, last_t, fields0, memo, again

fields ==
  <<num_item_d1, num_user_d1, num_item_d2, num_user_d2,
    adj_ds, adj_dt, V_d1, V_d2, gc, layers, discriminator_u, discriminator_i>>

hist == <<xs_ds, xs_dt, raw_ds, raw_dt>>

locals ==
  <<i, x_ds, x_dt, user_feats_ds, item_feats_ds, user_feats_dt, item_feats_dt>>

vars ==
  <<fields, pc, call, locals, local, out, grads, hist, last_t, fields0,
    memo, again>>

None == [kind |-> "None"]

\* GRADE.__init__
Init ==
  /\ \E ds \in DataSets, dt \in DataSets :
       /\ num_item_d1 = ds.num_item /\ num_user_d1 = ds.num_user
       /\ num_item_d2 = dt.num_item /\ num_user_d2 = dt.num_user
       /\ adj_ds = ds.adj /\ adj_dt = dt.adj
       /\ V_d1 = ds.feats /\ V_d2 = dt.feats
  /\ \E s \in Seeds :
       /\ gc = NewGC(s)
       /\ layers = NewLinear(num_gcn_layers * EDim * 2, s)
       /\ discriminator_u = NewLinear(num_gcn_layers * EDim, s + 1)
       /\ discriminator_i = NewLinear(num_gcn_layers * EDim, s + 2)
  /\ pc = "idle" /\ call = None
  /\ i = 0 /\ x_ds = <<>> /\ x_dt = <<>>
  /\ user_feats_ds = <<>> /\ item_feats_ds = <<>>
  /\ user_feats_dt = <<>> /\ item_feats_dt = <<>>
  /\ local = None /\ out = None /\ grads = None
  /\ xs_ds = <<>> /\ xs_dt = <<>> /\ raw_ds = <<>> /\ raw_dt = <<>>
  /\ last_t = None
  /\ fields0 = fields
  /\ memo = None /\ again = FALSE

\* ------------------------------------------------------------- call inputs
\* A batch of m rows <<user, item, label>> for a domain of nu users and ni
\* items.  Its last row is in range ("ok"), or carries an item index one
\* past the items ("item_high"), a user index past the last node
\* ("user_high"), a user index below minus the node count ("user_low"), or
\* an item index that is negative once offset ("item_neg").
Batch(nu, ni, m, start, last) ==
  [j \in 1..m |->
     LET u == (start + j - 1) % nu
         k == (ni - 1 - start + j - 1) % ni
         y == (start + j) % 2
     IN  IF j < m \/ last = "ok" THEN <<u, k, y>>
         ELSE IF last = "item_high" THEN <<u, ni, y>>
         ELSE IF last = "user_high" THEN <<nu + ni, k, y>>
         ELSE IF last = "user_low" THEN <<0 - (nu + ni) - 1, k, y>>
         ELSE <<u, 0 - nu - 1, y>>]

SourceBatches ==
  {Batch(num_user_d1, num_item_d1, m, k[1], k[2]) :
     m \in 1..MaxBatch,
     k \in {<<0, "ok">>, <<1, "ok">>, <<0, "item_high">>, <<1, "user_low">>}}

TargetBatches ==
  {Batch(num_user_d2, num_item_d2, m, k[1], k[2]) :
     m \in 1..MaxBatch,
     k \in {<<0, "ok">>, <<1, "ok">>, <<1, "user_high">>, <<0, "item_neg">>}}

\* train_data[:, c]
Column(train_data, c) == [j \in 1..Len(train_data) |-> train_data[j][c + 1]]

\* The probe call: the forward call whose first result since the
\* optimizer's last step is kept, for later calls with the same arguments
\* to be compared with.
IsProbe(c) ==
  LET t == Batch(num_user_d2, num_item_d2, MaxBatch, 0, "ok")
      s == Batch(num_user_d1, num_item_d1, 1, 1, "ok")
  IN  /\ c.user_s = Column(s, 0) /\ c.item_s = Column(s, 1)
      /\ c.labels_s = Column(s, 2)
      /\ c.user_t = Column(t, 0) /\ c.item_t = Column(t, 1)
      /\ c.labels_t = Column(t, 2)
      /\ c.alpha = 1

Remember(result) ==
  IF IsProbe(call)
  THEN /\ memo' = IF memo = None THEN result ELSE memo
       /\ again' = (memo # None)
  ELSE UNCHANGED <<memo, again>>

\* A call whose rectifier works in place on the static target features.
CallFrameInPlace ==
  /\ V_d2' = Relu(V_d2)
  /\ UNCHANGED <<num_item_d1, num_user_d1, num_item_d2, num_user_d2,
                 adj_ds, adj_dt, V_d1, gc, layers, discriminator_u, discriminator_i>>

\* forward and inference assign no field of self and apply no in-place
\* operation to one: every step of a call leaves the fields as they are.
CallFrame == UNCHANGED fields

\* The error caught inside the call and an empty result returned instead.
Swallowed == [kind |-> "prob", val |-> <<>>]

\* The numeric engine's error for an index out of range, as the caller of
\* forward or inference receives it.
Raised == [kind |-> "error", error |-> "IndexError"]

\* ----------------------------------------------------------------- forward
\* Lines 94-102: the columns of the two batches, x = V, four empty lists.
ForwardBegin ==
  /\ pc = "idle"
  /\ \E train_data_s \in SourceBatches, train_data_t \in TargetBatches,
        alpha \in 0..MaxAlpha :
       call' = [kind |-> "forward",
                user_s |-> Column(train_data_s, 0), item_s |-> Column(train_data_s, 1),
                labels_s |-> Column(train_data_s, 2),
                user_t |-> Column(train_data_t, 0), item_t |-> Column(train_data_t, 1),
                labels_t |-> Column(train_data_t, 2),
                alpha |-> alpha]
  /\ pc' = "forward"
  /\ i' = 0 /\ x_ds' = V_d1 /\ x_dt' = V_d2
  /\ user_feats_ds' = <<>> /\ item_feats_ds' = <<>>
  /\ user_feats_dt' = <<>> /\ item_feats_dt' = <<>>
  /\ xs_ds' = <<>> /\ xs_dt' = <<>> /\ raw_ds' = <<>> /\ raw_dt' = <<>>
  /\ local' = None /\ out' = None /\ grads' = None /\ last_t' = None
  /\ CallFrame
  /\ UNCHANGED <<fields0, memo, again>>

\* Line 104: self.gc[i](x_ds, self.adj_ds); layer i of the code is gc[k]
\* with k = i + 1.
LayerSource(k, x) == GraphConvolution(gc[k], x, adj_ds)

\* Line 104: x_ds = F.relu(...).
EncodeSource(k, x) == Relu(LayerSource(k, x))

\* Line 105 with a list of layers of the target domain's own.
LayerTargetOwnLayers(k, x) == GraphConvolution(NewGC(3)[k], x, adj_dt)

\* Line 105: self.gc[i](x_dt, self.adj_dt).
LayerTarget(k, x) == GraphConvolution(gc[k], x, adj_dt)

\* Line 105: x_dt = F.relu(...).
EncodeTarget(k, x) == Relu(LayerTarget(k, x))

\* Lines 106 and 108: x[user_s], x[user_t].
UserIndex(user) == user

\* Line 107: item_s + self.num_user_d1.
ItemIndexSource(item) == Offset(item, num_user_d1)

\* Line 109 with the source domain's user count.
ItemIndexTargetSourceCount(item) == Offset(item, num_user_d1)

\* Line 109: item_t + self.num_user_d2.
ItemIndexTarget(item) == Offset(item, num_user_d2)

\* Lines 103-109, one iteration: both encoders advance one layer, then the
\* four gathers in the code's order; the first index out of range raises.
\* (\E v \in {e} binds v to the value of e, computed once.)
ForwardLayer ==
  /\ pc = "forward" /\ i < num_gcn_layers
  /\ \E nx_ds \in {EncodeSource(i + 1, x_ds)}, nx_dt \in {EncodeTarget(i + 1, x_dt)} :
         \/ /\ GatherOk(nx_ds, UserIndex(call.user_s))
            /\ GatherOk(nx_ds, ItemIndexSource(call.item_s))
            /\ GatherOk(nx_dt, UserIndex(call.user_t))
            /\ GatherOk(nx_dt, ItemIndexTarget(call.item_t))
            /\ x_ds' = nx_ds /\ x_dt' = nx_dt
            /\ user_feats_ds' = Append(user_feats_ds, Gather(nx_ds, UserIndex(call.user_s)))
            /\ item_feats_ds' = Append(item_feats_ds, Gather(nx_ds, ItemIndexSource(call.item_s)))
            /\ user_feats_dt' = Append(user_feats_dt, Gather(nx_dt, UserIndex(call.user_t)))
            /\ item_feats_dt' = Append(item_feats_dt, Gather(nx_dt, ItemIndexTarget(call.item_t)))
            /\ xs_ds' = Append(xs_ds, nx_ds) /\ xs_dt' = Append(xs_dt, nx_dt)
            /\ raw_ds' = Append(raw_ds, LayerSource(i + 1, x_ds))
            /\ raw_dt' = Append(raw_dt, LayerTarget(i + 1, x_dt))
            /\ i' = i + 1
            /\ UNCHANGED <<pc, out>>
         \/ /\ ~ ( /\ GatherOk(nx_ds, UserIndex(call.user_s))
                   /\ GatherOk(nx_ds, ItemIndexSource(call.item_s))
                   /\ GatherOk(nx_dt, UserIndex(call.user_t))
                   /\ GatherOk(nx_dt, ItemIndexTarget(call.item_t)) )
            /\ pc' = "returned"
            /\ out' = Raised
            /\ UNCHANGED <<locals, hist>>
  /\ CallFrame
  /\ UNCHANGED <<fields0, call, local, grads, last_t, memo, again>>

\* Lines 114-115: the prediction head reads the concatenation directly.
HeadInput(user_feats, item_feats) ==
  [grad_fn |-> "cat", output |-> CatCols(<<user_feats, item_feats>>)]

\* Lines 120-121 with the stack handed to the discriminator directly.
DiscriminatorInputDirect(feats_ds, feats_dt, alpha) ==
  LET stack == CatRows(feats_ds, feats_dt)
  IN  [grad_fn |-> "cat", ctx |-> [alpha |-> alpha], input |-> stack, output |-> stack]

\* Lines 120-121: ReverseLayerF.apply(torch.cat([source, target], dim=0), alpha).
DiscriminatorInput(feats_ds, feats_dt, alpha) ==
  LET stack == CatRows(feats_ds, feats_dt)
      r     == ReverseForward(stack, alpha)
  IN  [grad_fn |-> "ReverseLayerF", ctx |-> r.ctx, input |-> stack, output |-> r.output]

\* Line 122 with the two counts exchanged.
DomainLabelsExchanged(m, n) == [p \in 1..(m + n) |-> IF p <= n THEN 0 ELSE 1]

\* Line 122: [0] * user_feats_ds.shape[0] + [1] * user_feats_dt.shape[0].
DomainLabels(m, n) == [p \in 1..(m + n) |-> IF p <= m THEN 0 ELSE 1]

\* Line 125 with the weight 0.1 left out.
ForwardReturnUnweighted(loss, domain_loss) ==
  loss * DomainWeightDen + domain_loss * DomainWeightDen

\* Line 125: loss + domain_loss * 0.1, in units of 1/(LossUnit*DomainWeightDen).
ForwardReturn(loss, domain_loss) == loss * DomainWeightDen + domain_loss

\* Lines 110-125.
ForwardFinish ==
  /\ pc = "forward" /\ i = num_gcn_layers
  /\ \E ufs \in {CatCols(user_feats_ds)}, ifs \in {CatCols(item_feats_ds)},
        uft \in {CatCols(user_feats_dt)}, ift \in {CatCols(item_feats_dt)} :
     \E head_s \in {HeadInput(ufs, ifs)}, head_t \in {HeadInput(uft, ift)},
        user_in \in {DiscriminatorInput(ufs, uft, call.alpha)},
        item_in \in {DiscriminatorInput(ifs, ift, call.alpha)},
        domain_labels \in {DomainLabels(Len(ufs), Len(uft))} :
     \E logit_s \in {Score(layers, head_s.output)},
        logit_t \in {Score(layers, head_t.output)},
        user_domain_preds \in {Score(discriminator_u, user_in.output)},
        item_domain_preds \in {Score(discriminator_i, item_in.output)} :
     \E loss_s \in {BCELoss(logit_s, call.labels_s)},
        loss_t \in {BCELoss(logit_t, call.labels_t)},
        domain_loss \in {BCELoss(item_domain_preds, domain_labels)
                           + BCELoss(user_domain_preds, domain_labels)} :
     \E result \in {[kind |-> "loss",
                     val |-> ForwardReturn(loss_s + loss_t, domain_loss)]} :
         /\ user_feats_ds' = ufs /\ item_feats_ds' = ifs
         /\ user_feats_dt' = uft /\ item_feats_dt' = ift
         /\ local' = [kind |-> "forward",
                      head_s |-> head_s, head_t |-> head_t,
                      logit_s |-> logit_s, logit_t |-> logit_t,
                      loss_s |-> loss_s, loss_t |-> loss_t, loss |-> loss_s + loss_t,
                      user_in |-> user_in, item_in |-> item_in,
                      user_domain_preds |-> user_domain_preds,
                      item_domain_preds |-> item_domain_preds,
                      domain_labels |-> domain_labels,
                      domain_loss |-> domain_loss]
         /\ out' = result
         /\ last_t' = [kind |-> "forward", user |-> call.user_t, item |-> call.item_t,
                       logit_t |-> logit_t]
         /\ Remember(result)
  /\ pc' = "returned"
  /\ CallFrame
  /\ UNCHANGED <<fields0, call, i, x_ds, x_dt, hist, grads>>

\* --------------------------------------------------------------- inference
\* Lines 128-130.
InferenceBegin ==
  /\ pc = "idle"
  /\ \E data \in TargetBatches :
       call' = [kind |-> "inference",
                user |-> Column(data, 0), item |-> Column(data, 1)]
  /\ pc' = "inference"
  /\ i' = 0 /\ x_dt' = V_d2 /\ x_ds' = <<>>
  /\ user_feats_ds' = <<>> /\ item_feats_ds' = <<>>
  /\ user_feats_dt' = <<>> /\ item_feats_dt' = <<>>
  /\ xs_ds' = <<>> /\ xs_dt' = <<>> /\ raw_ds' = <<>> /\ raw_dt' = <<>>
  /\ local' = None /\ out' = None /\ grads' = None
  /\ CallFrame
  /\ UNCHANGED <<fields0, last_t, memo, again>>

\* Line 132: self.gc[i](x_dt, self.adj_dt).
InferenceLayerTarget(k, x) == GraphConvolution(gc[k], x, adj_dt)

\* Line 132: x_dt = F.relu(...).
InferenceEncode(k, x) == Relu(InferenceLayerTarget(k, x))

\* Line 133: x_dt[user].
InferenceUserIndex(user) == user

\* Line 134 with the source domain's user count.
InferenceItemIndexSourceCount(item) == Offset(item, num_user_d1)

\* Line 134: item + self.num_user_d2.
InferenceItemIndex(item) == Offset(item, num_user_d2)

\* Lines 131-134, one iteration.
InferenceLayer ==
  /\ pc = "inference" /\ i < num_gcn_layers
  /\ \E nx_dt \in {InferenceEncode(i + 1, x_dt)} :
         \/ /\ GatherOk(nx_dt, InferenceUserIndex(call.user))
            /\ GatherOk(nx_dt, InferenceItemIndex(call.item))
            /\ x_dt' = nx_dt
            /\ user_feats_dt' =
                 Append(user_feats_dt, Gather(nx_dt, InferenceUserIndex(call.user)))
            /\ item_feats_dt' =
                 Append(item_feats_dt, Gather(nx_dt, InferenceItemIndex(call.item)))
            /\ xs_dt' = Append(xs_dt, nx_dt)
            /\ raw_dt' = Append(raw_dt, InferenceLayerTarget(i + 1, x_dt))
            /\ i' = i + 1
            /\ UNCHANGED <<pc, out>>
         \/ /\ ~ ( /\ GatherOk(nx_dt, InferenceUserIndex(call.user))
                   /\ GatherOk(nx_dt, InferenceItemIndex(call.item)) )
            /\ pc' = "returned"
            /\ out' = Raised
            /\ UNCHANGED <<i, x_dt, user_feats_dt, item_feats_dt, xs_dt, raw_dt>>
  /\ CallFrame
  /\ UNCHANGED <<fields0, call, x_ds, user_feats_ds, item_feats_ds, xs_ds, raw_ds,
                 local, grads, last_t, memo, again>>

\* Line 136.
InferenceFinish ==
  /\ pc = "inference" /\ i = num_gcn_layers
  /\ LET val == Score(layers, CatCols(<<CatCols(user_feats_dt),
                                         CatCols(item_feats_dt)>>))
     IN  out' = [kind |-> "prob", val |-> val]
  /\ pc' = "returned"
  /\ CallFrame
  /\ UNCHANGED <<fields0, call, locals, local, grads, hist, last_t, memo, again>>

\* The call has returned (or raised) and its caller is done with what it
\* got: the call's frame, and every tensor it produced, is gone.
Release ==
  /\ pc = "returned"
  /\ pc' = "idle"
  /\ call' = None /\ local' = None /\ out' = None /\ grads' = None
  /\ xs_ds' = <<>> /\ xs_dt' = <<>> /\ raw_ds' = <<>> /\ raw_dt' = <<>>
  /\ i' = 0 /\ x_ds' = <<>> /\ x_dt' = <<>>
  /\ user_feats_ds' = <<>> /\ item_feats_ds' = <<>>
  /\ user_feats_dt' = <<>> /\ item_feats_dt' = <<>>
  /\ again' = FALSE
  /\ UNCHANGED <<fields, fields0, last_t, memo>>

\* ---------------------------------------------------------------- backward
\* The gradient a graph node hands upstream for the gradient g it receives:
\* ReverseLayerF.backward for a reversal node, g itself for a concatenation
\* feeding its consumer directly.
NodeBackward(node, g) ==
  IF node.grad_fn = "ReverseLayerF" THEN ReverseBackward(node.ctx, g)
  ELSE <<[kind |-> "tensor", val |-> g]>>

\* A gradient tensor of the given shape; seed names its values.
GradTensor(seed, rows, cols) ==
  [j \in 1..rows |-> [c \in 1..cols |-> ((seed * j + c) % 4) - 2]]

\* loss.backward() on the loss forward returned: autograd hands each input
\* node of the head and of the discriminators the gradient of its consumer
\* and records what the node returns.
Backward ==
  /\ pc = "returned" /\ out.kind = "loss" /\ grads = None
  /\ \E seed \in Seeds :
       LET g_user == GradTensor(seed, Len(local.user_in.output), num_gcn_layers * EDim)
           g_item == GradTensor(seed + 1, Len(local.item_in.output), num_gcn_layers * EDim)
           g_s == GradTensor(seed + 2, Len(local.head_s.output), 2 * num_gcn_layers * EDim)
           g_t == GradTensor(seed + 3, Len(local.head_t.output), 2 * num_gcn_layers * EDim)
       IN  grads' = [kind |-> "grads",
                     g_user |-> g_user, g_item |-> g_item, g_s |-> g_s, g_t |-> g_t,
                     from_user_in |-> NodeBackward(local.user_in, g_user),
                     from_item_in |-> NodeBackward(local.item_in, g_item),
                     from_head_s |-> NodeBackward(local.head_s, g_s),
                     from_head_t |-> NodeBackward(local.head_t, g_t)]
  /\ UNCHANGED <<fields, fields0, pc, call, locals, local, out, hist, last_t,
                 memo, again>>

\* ---------------------------------------------------------- optimizer step
\* The external optimizer, between calls: the trainable parameters take new
\* values; what earlier calls computed is no longer about these parameters.
OptimizerStep ==
  /\ pc = "idle"
  /\ \E s \in Seeds :
       /\ gc' = NewGC(s)
       /\ layers' = NewLinear(num_gcn_layers * EDim * 2, s)
       /\ discriminator_u' = NewLinear(num_gcn_layers * EDim, s + 1)
       /\ discriminator_i' = NewLinear(num_gcn_layers * EDim, s + 2)
  /\ gc' # gc
  /\ UNCHANGED <<num_item_d1, num_user_d1, num_item_d2, num_user_d2,
                 adj_ds, adj_dt, V_d1, V_d2>>
  /\ fields0' = fields'
  /\ last_t' = None /\ memo' = None
  /\ UNCHANGED <<pc, call, locals, local, out, grads, hist, again>>

Next ==
  \/ ForwardBegin \/ ForwardLayer \/ ForwardFinish
  \/ InferenceBegin \/ InferenceLayer \/ InferenceFinish
  \/ Backward \/ Release \/ OptimizerStep

Spec == Init /\ [][Next]_vars

\* ------------------------------------------------------------------ claims
\* A forward call has returned its loss: its locals are still in view.
ForwardReturned == pc = "returned" /\ local.kind = "forward"

\* Entry (p, c) of every matrix of the pair agrees.
SameMatrix(A, B) ==
  /\ Len(A) = Len(B)
  /\ \A p \in 1..Len(A) :
       /\ Len(A[p]) = Len(B[p])
       /\ \A c \in 1..Len(A[p]) : A[p][c] = B[p][c]

\* C1: the gradient-reversal operator returns its input element for element
\* on the forward path; on the backward path it returns, for the downstream
\* gradient g, exactly -alpha * g for x and None for alpha, so all zeros
\* when alpha = 0.
C1_ReverseLayerContract ==
  ForwardReturned =>
    \A side \in {"user", "item"} :
      LET node == IF side = "user" THEN local.user_in ELSE local.item_in
          x    == IF side = "user" THEN user_feats_ds \o user_feats_dt
                  ELSE item_feats_ds \o item_feats_dt
          g    == IF side = "user" THEN grads.g_user ELSE grads.g_item
          back == IF side = "user" THEN grads.from_user_in ELSE grads.from_item_in
      IN  /\ SameMatrix(node.output, x)
          /\ grads # None =>
               /\ Len(back) = 2
               /\ back[2] = None
               /\ back[1].kind = "tensor"
               /\ Len(back[1].val) = Len(g)
               /\ \A p \in 1..Len(g) : \A c \in 1..Len(g[p]) :
                    /\ back[1].val[p][c] = 0 - (call.alpha * g[p][c])
                    /\ call.alpha = 0 => back[1].val[p][c] = 0

C1_Witness ==
  /\ ForwardReturned /\ grads # None /\ call.alpha = 2
  /\ \E p \in 1..Len(grads.g_user) : grads.g_user[p][1] > 0
  /\ \E p \in 1..Len(grads.g_user) : grads.from_user_in[1].val[p][1] < 0

\* The rows of a layer's output that the call's gathers of that layer hold,
\* for the indices that are not negative once offset.
GatheredFrom(feats, x, idx, offset) ==
  /\ Len(feats) = Len(idx)
  /\ \A j \in 1..Len(idx) :
       (idx[j] + offset >= 0) => feats[j] = x[idx[j] + offset + 1]

InLoop == pc \in {"forward", "inference"}

\* C2: at every layer, in forward and in inference, item index k of a domain
\* is gathered from row num_user + k of that domain's layer output, with
\* that domain's own user count, and user index u from row u.
C2_IndexOffset ==
  InLoop =>
    /\ Len(user_feats_dt) = i /\ Len(item_feats_dt) = i /\ Len(xs_dt) = i
    /\ \A k \in 1..i :
         LET user == IF pc = "forward" THEN call.user_t ELSE call.user
             item == IF pc = "forward" THEN call.item_t ELSE call.item
         IN  /\ GatheredFrom(user_feats_dt[k], xs_dt[k], user, 0)
             /\ GatheredFrom(item_feats_dt[k], xs_dt[k], item, num_user_d2)
    /\ pc = "forward" =>
         /\ Len(user_feats_ds) = i /\ Len(item_feats_ds) = i /\ Len(xs_ds) = i
         /\ \A k \in 1..i :
              /\ GatheredFrom(user_feats_ds[k], xs_ds[k], call.user_s, 0)
              /\ GatheredFrom(item_feats_ds[k], xs_ds[k], call.item_s, num_user_d1)

\* num_user = 5 and item index 2: row 7 (the eighth row) is gathered.
C2_Witness ==
  /\ pc = "forward" /\ i = num_gcn_layers
  /\ num_user_d2 = 5 /\ num_user_d1 = 2
  /\ call.item_t[1] = 2
  /\ item_feats_dt[1][1] = xs_dt[1][8]
  /\ item_feats_dt[1][1] # xs_dt[1][5]

\* C3: for a source batch of m rows and a target batch of n rows the label
\* vector is m zeros followed by n ones, and both stacks hold the source
\* rows at positions 1..m and the target rows at m+1..m+n.
C3_DomainLabels ==
  ForwardReturned =>
    LET m == Len(call.user_s)
        n == Len(call.user_t)
    IN  /\ Len(local.domain_labels) = m + n
        /\ \A p \in 1..(m + n) : local.domain_labels[p] = IF p <= m THEN 0 ELSE 1
        /\ Len(user_feats_ds) = m /\ Len(item_feats_ds) = m
        /\ Len(user_feats_dt) = n /\ Len(item_feats_dt) = n
        /\ Len(local.user_in.output) = m + n /\ Len(local.item_in.output) = m + n
        /\ Len(local.user_domain_preds) = m + n
        /\ Len(local.item_domain_preds) = m + n
        /\ \A p \in 1..(m + n) :
             /\ local.user_in.output[p] =
                  IF p <= m THEN user_feats_ds[p] ELSE user_feats_dt[p - m]
             /\ local.item_in.output[p] =
                  IF p <= m THEN item_feats_ds[p] ELSE item_feats_dt[p - m]

C3_Witness ==
  /\ ForwardReturned
  /\ Len(call.user_s) = 1 /\ Len(call.user_t) = 2
  /\ local.domain_labels = <<0, 1, 1>>
  /\ local.user_in.output[1] # local.user_in.output[2]

\* C4: forward returns supervised_loss + 0.1 * domain_loss (here in units of
\* 1/(LossUnit * DomainWeightDen)), the supervised loss being the sum of the
\* two batches' prediction losses and the domain loss the sum of the two
\* discriminators' losses; so it is at least the supervised loss whenever
\* the domain loss is not negative.
C4_CompositeLoss ==
  ForwardReturned =>
    LET sup == BCELoss(local.logit_s, call.labels_s)
                 + BCELoss(local.logit_t, call.labels_t)
        dom == BCELoss(local.user_domain_preds, local.domain_labels)
                 + BCELoss(local.item_domain_preds, local.domain_labels)
    IN  /\ local.loss = sup /\ local.domain_loss = dom
        /\ out.kind = "loss"
        /\ out.val = DomainWeightDen * sup + dom
        /\ dom >= 0 => out.val >= DomainWeightDen * sup

C4_Witness ==
  /\ ForwardReturned
  /\ local.loss > 0 /\ local.domain_loss > 0
  /\ out.val > DomainWeightDen * local.loss
  /\ out.val < DomainWeightDen * (local.loss + local.domain_loss)

\* C5: both encoder passes use the one list of layers, so on identical
\* features and adjacency the two domains get the same output at every
\* layer, for every node, before and after the rectifier.
C5_SharedWeights ==
  (call.kind = "forward" /\ V_d1 = V_d2 /\ adj_ds = adj_dt) =>
    /\ Len(xs_ds) = Len(xs_dt) /\ Len(raw_ds) = Len(raw_dt)
    /\ \A k \in 1..Len(xs_ds) :
         /\ SameMatrix(xs_ds[k], xs_dt[k])
         /\ SameMatrix(raw_ds[k], raw_dt[k])

C5_Witness ==
  /\ pc = "forward" /\ i = num_gcn_layers
  /\ V_d1 = V_d2 /\ adj_ds = adj_dt /\ num_user_d1 = 5
  /\ xs_ds = xs_dt
  /\ \E r \in 1..Len(xs_ds[2]) : xs_ds[2][r][1] > 0

\* C6: inference computes nothing of the source domain and no discriminator
\* score, and for the indices of the last forward call's target batch, under
\* the same parameters, it returns exactly that call's logit_t.
C6_InferenceMatchesForward ==
  /\ call.kind = "inference" =>
       /\ x_ds = <<>> /\ xs_ds = <<>> /\ raw_ds = <<>>
       /\ user_feats_ds = <<>> /\ item_feats_ds = <<>>
       /\ local = None
  /\ ( /\ pc = "returned" /\ call.kind = "inference" /\ last_t # None
       /\ last_t.user = call.user /\ last_t.item = call.item )
       => out = [kind |-> "prob", val |-> last_t.logit_t]

C6_Witness ==
  /\ pc = "returned" /\ call.kind = "inference" /\ last_t # None
  /\ last_t.user = call.user /\ last_t.item = call.item
  /\ num_user_d1 # num_user_d2
  /\ out.kind = "prob" /\ out.val = last_t.logit_t
  /\ \E j \in 1..Len(out.val) : out.val[j] > 0 /\ out.val[j] < 2 * Half

\* C7: no step of a forward or inference call changes a field of the model
\* (parameters, static features, adjacency, node counts), so a forward call
\* returns what the earlier call with the same arguments returned, whatever
\* was called in between, as long as the optimizer has not stepped.
C7_Stateless ==
  /\ fields = fields0
  /\ (pc = "returned" /\ again) => out = memo

C7_Witness ==
  /\ pc = "returned" /\ again /\ out.kind = "loss" /\ out = memo
  /\ last_t # None

\* Some entry of idx, once offset, is outside -N .. N-1, the range the
\* numeric engine accepts for a tensor of N rows.
OutOfRange(idx, offset, N) ==
  \E j \in 1..Len(idx) : (idx[j] + offset < 0 - N) \/ (idx[j] + offset >= N)

CallOutOfRange ==
  IF call.kind = "forward"
  THEN \/ OutOfRange(call.user_s, 0, Len(V_d1))
       \/ OutOfRange(call.item_s, num_user_d1, Len(V_d1))
       \/ OutOfRange(call.user_t, 0, Len(V_d2))
       \/ OutOfRange(call.item_t, num_user_d2, Len(V_d2))
  ELSE \/ OutOfRange(call.user, 0, Len(V_d2))
       \/ OutOfRange(call.item, num_user_d2, Len(V_d2))

\* C8: a call with a user index, or an item index plus the domain's user
\* count, out of range for the domain's feature matrix ends with the
\* engine's index error, returns no loss and no probability and leaves the
\* fields as they were; the model raises no index error of its own.
C8_ErrorPropagation ==
  (pc = "returned") =>
    /\ CallOutOfRange =>
         /\ out = [kind |-> "error", error |-> "IndexError"]
         /\ local = None /\ i = 0
         /\ fields = fields0
    /\ out.kind = "error" => CallOutOfRange

C8_Witness ==
  /\ pc = "returned" /\ call.kind = "forward" /\ out.kind = "error"
  /\ ~ OutOfRange(call.user_s, 0, Len(V_d1))
  /\ ~ OutOfRange(call.user_t, 0, Len(V_d2))
  /\ ~ OutOfRange(call.item_t, num_user_d2, Len(V_d2))
  /\ \E j \in 1..Len(call.item_s) : call.item_s[j] + num_user_d1 = Len(V_d1)

\* C9: each discriminator scores its stack through the gradient-reversal
\* operator with the caller's alpha, the prediction head reads the
\* embeddings directly; so the domain loss's gradient reaches the encoder
\* as -alpha * g, the supervised loss's gradient reaches it as it is.
C9_ReversalPlacement ==
  ForwardReturned =>
    /\ local.user_in.grad_fn = "ReverseLayerF"
    /\ local.item_in.grad_fn = "ReverseLayerF"
    /\ local.user_in.ctx.alpha = call.alpha
    /\ local.item_in.ctx.alpha = call.alpha
    /\ SameMatrix(local.user_in.input, user_feats_ds \o user_feats_dt)
    /\ SameMatrix(local.item_in.input, item_feats_ds \o item_feats_dt)
    /\ local.user_domain_preds = Score(discriminator_u, local.user_in.output)
    /\ local.item_domain_preds = Score(discriminator_i, local.item_in.output)
    /\ local.head_s.grad_fn = "cat" /\ local.head_t.grad_fn = "cat"
    /\ \A j \in 1..Len(call.user_s) :
         local.head_s.output[j] = user_feats_ds[j] \o item_feats_ds[j]
    /\ \A j \in 1..Len(call.user_t) :
         local.head_t.output[j] = user_feats_dt[j] \o item_feats_dt[j]
    /\ local.logit_s = Score(layers, local.head_s.output)
    /\ local.logit_t = Score(layers, local.head_t.output)
    /\ grads # None =>
         /\ grads.from_head_s = <<[kind |-> "tensor", val |-> grads.g_s]>>
         /\ grads.from_head_t = <<[kind |-> "tensor", val |-> grads.g_t]>>
         /\ grads.from_user_in[1].val = Times(grads.g_user, 0 - call.alpha)
         /\ grads.from_item_in[1].val = Times(grads.g_item, 0 - call.alpha)

C9_Witness ==
  /\ ForwardReturned /\ grads # None /\ call.alpha = 1
  /\ grads.from_head_t[1].val = grads.g_t
  /\ grads.from_item_in[1].val # grads.g_item
  /\ local.user_in.grad_fn = "ReverseLayerF"

\* Entry (r, c) of adj * (x * W) + b.
Propagated(x, layer, adj, r, c) ==
  SumTo([n \in 1..Len(adj) |->
           adj[r][n] * SumTo([f \in 1..Len(layer.weight) |->
                                x[n][f] * layer.weight[f][c]], Len(layer.weight))],
        Len(adj))
    + layer.bias.val[c]

\* Every recorded layer k of a pass over (x0, adj) is the layer's raw output
\* on the previous layer's rectified output, and its rectified output.
Recurrence(x0, adj, xs, raw) ==
  /\ Len(raw) = Len(xs)
  /\ \A k \in 1..Len(xs) :
       LET prev == IF k = 1 THEN x0 ELSE xs[k - 1]
       IN  /\ Len(xs[k]) = Len(x0) /\ Len(raw[k]) = Len(x0)
           /\ \A r \in 1..Len(x0) :
                /\ Len(xs[k][r]) = EDim /\ Len(raw[k][r]) = EDim
                /\ \A c \in 1..EDim :
                     /\ raw[k][r][c] = Propagated(prev, gc[k], adj, r, c)
                     /\ xs[k][r][c] = IF raw[k][r][c] < 0 THEN 0 ELSE raw[k][r][c]

\* Row j of a concatenated embedding is, layer after layer, the row of the
\* layer's rectified output that index idx[j] (offset) names.
Concatenated(feats, xs, idx, offset) ==
  /\ Len(feats) = Len(idx)
  /\ \A j \in 1..Len(idx) :
       /\ Len(feats[j]) = num_gcn_layers * EDim
       /\ \A k \in 1..num_gcn_layers : \A c \in 1..EDim :
            /\ feats[j][(k - 1) * EDim + c] =
                 xs[k][RowOf(idx[j] + offset, Len(xs[k]))][c]
            /\ feats[j][(k - 1) * EDim + c] >= 0

\* C10: x_{k} = relu(adj * (x_{k-1} * W_k) + b_k) with x_0 the feature
\* matrix, the layer returning the unrectified value and the stack applying
\* the rectifier; the final embeddings are the gathered rows of every
\* layer's rectified output, concatenated in layer order: num_gcn_layers *
\* edim wide, with no negative entry.
C10_EncoderRecurrence ==
  /\ i <= num_gcn_layers
  /\ InLoop => (Len(xs_dt) = i /\ Recurrence(V_d2, adj_dt, xs_dt, raw_dt))
  /\ pc = "forward" => (Len(xs_ds) = i /\ Recurrence(V_d1, adj_ds, xs_ds, raw_ds))
  /\ ForwardReturned =>
       /\ Len(xs_ds) = num_gcn_layers /\ Len(xs_dt) = num_gcn_layers
       /\ Concatenated(user_feats_ds, xs_ds, call.user_s, 0)
       /\ Concatenated(item_feats_ds, xs_ds, call.item_s, num_user_d1)
       /\ Concatenated(user_feats_dt, xs_dt, call.user_t, 0)
       /\ Concatenated(item_feats_dt, xs_dt, call.item_t, num_user_d2)

C10_Witness ==
  /\ ForwardReturned
  /\ \E r \in 1..Len(raw_dt[1]) : raw_dt[1][r][1] < 0 /\ xs_dt[1][r][1] = 0
  /\ \E r \in 1..Len(raw_dt[2]) : raw_dt[2][r][1] > 0
  /\ \E j \in 1..Len(user_feats_dt) : user_feats_dt[j][num_gcn_layers * EDim] > 0
=============================================================================
